---- MODULE Spec2Model ----
(***************************************************************************)
(* Model of the mandrel G-code generator (generator.ts, latest revision:   *)
(* src/unnamed/part_001).  The command emitter, the Section type, the      *)
(* segmenter (interpolatePoints), the contour cycle, sectionCycle and      *)
(* genCode are translated function by function.                            *)
(*                                                                         *)
(* JavaScript numbers are modelled as exact rationals <<n, d>> in lowest   *)
(* terms (d > 0), extended with NaN, +/-Infinity and undefined.  Binary    *)
(* floating-point rounding is not modelled.                                *)
(* Text is a sequence of words [w, v]; the newline is a word of its own.   *)
(***************************************************************************)
EXTENDS Integers, Sequences, FiniteSets, TLC

\* ------------------------------------------------------------------------
\* Bounds of the model
\* ------------------------------------------------------------------------
\* most points in an input list
MaxPts == 3
\* largest position of an input point, in half units
MaxZ == 5

\* ------------------------------------------------------------------------
\* Numbers
\* ------------------------------------------------------------------------
NaN == <<0, 0>>
PosInf == <<1, 0>>
NegInf == <<-1, 0>>
Undef == <<0, -1>>

Abs(i) == IF i < 0 THEN -i ELSE i

RECURSIVE GCD(_, _)
GCD(a, b) == IF b = 0 THEN a ELSE GCD(b, a % b)

\* the rational n/d in lowest terms, d # 0
Q(n, d) ==
    LET g == GCD(Abs(n), Abs(d))
        s == IF d < 0 THEN -1 ELSE 1
    IN  <<(s * n) \div g, (s * d) \div g>>

Num(i) == <<i, 1>>
IsFinite(a) == a[2] > 0
IsInf(a) == a = PosInf \/ a = NegInf
\* undefined converts to NaN in arithmetic
IsNaNish(a) == a = NaN \/ a = Undef

Neg(a) == IF IsNaNish(a) THEN NaN ELSE <<-a[1], a[2]>>

Add(a, b) ==
    IF IsNaNish(a) \/ IsNaNish(b) THEN NaN
    ELSE IF IsInf(a) THEN (IF IsInf(b) /\ b # a THEN NaN ELSE a)
    ELSE IF IsInf(b) THEN b
    ELSE Q(a[1] * b[2] + b[1] * a[2], a[2] * b[2])

Sub(a, b) == Add(a, Neg(b))

Sign(a) == IF a[1] > 0 THEN 1 ELSE IF a[1] < 0 THEN -1 ELSE 0

Mul(a, b) ==
    IF IsNaNish(a) \/ IsNaNish(b) THEN NaN
    ELSE IF IsInf(a) \/ IsInf(b)
         THEN (IF Sign(a) * Sign(b) = 0 THEN NaN
               ELSE IF Sign(a) * Sign(b) > 0 THEN PosInf ELSE NegInf)
    ELSE Q(a[1] * b[1], a[2] * b[2])

Div(a, b) ==
    IF IsNaNish(a) \/ IsNaNish(b) THEN NaN
    ELSE IF IsInf(a) THEN (IF IsInf(b) THEN NaN
                           ELSE IF Sign(a) * (IF b[1] < 0 THEN -1 ELSE 1) > 0
                                THEN PosInf ELSE NegInf)
    ELSE IF IsInf(b) THEN Num(0)
    ELSE IF b[1] = 0 THEN (IF a[1] = 0 THEN NaN
                           ELSE IF a[1] > 0 THEN PosInf ELSE NegInf)
    ELSE Q(a[1] * b[2], a[2] * b[1])

\* a < b; false when either side is NaN or undefined
Lt(a, b) ==
    IF IsNaNish(a) \/ IsNaNish(b) THEN FALSE
    ELSE IF a = b THEN FALSE
    ELSE IF a = NegInf \/ b = PosInf THEN TRUE
    ELSE IF a = PosInf \/ b = NegInf THEN FALSE
    ELSE a[1] * b[2] < b[1] * a[2]

Gt(a, b) == Lt(b, a)
Le(a, b) == Lt(a, b) \/ (a = b /\ ~IsNaNish(a))

\* === of two numbers-or-undefined: NaN equals nothing
StrictEq(a, b) == a # NaN /\ b # NaN /\ a = b

\* Math.floor, Math.ceil as integers (finite arguments)
FloorI(a) == a[1] \div a[2]
CeilI(a) == -((-a[1]) \div a[2])

MathCeil(a) == IF IsFinite(a) THEN Num(CeilI(a)) ELSE IF a = Undef THEN NaN ELSE a
MathFloor(a) == IF IsFinite(a) THEN Num(FloorI(a)) ELSE IF a = Undef THEN NaN ELSE a

\* a % 1 for a >= 0
Mod1(a) == IF IsFinite(a) /\ a[1] >= 0 THEN Sub(a, Num(FloorI(a)))
           ELSE IF IsFinite(a) THEN Sub(a, Num(CeilI(a)))
           ELSE NaN

\* truthiness of a number
Truthy(a) == IsInf(a) \/ (IsFinite(a) /\ a[1] # 0)

RECURSIVE MathMax(_)
MathMax(s) ==
    IF Len(s) = 0 THEN NegInf
    ELSE LET r == MathMax(Tail(s))
             h == Head(s)
         IN  IF IsNaNish(h) \/ r = NaN THEN NaN
             ELSE IF Lt(h, r) THEN r ELSE h

RECURSIVE MathMin(_)
MathMin(s) ==
    IF Len(s) = 0 THEN PosInf
    ELSE LET r == MathMin(Tail(s))
             h == Head(s)
         IN  IF IsNaNish(h) \/ r = NaN THEN NaN
             ELSE IF Lt(r, h) THEN r ELSE h

\* ------------------------------------------------------------------------
\* Configuration
\* ------------------------------------------------------------------------
decimals == 4
rpm == 1500
stickout == Num(1)
depthsMax == Q(40, 1000)
xClearance == Q(10, 1000)
zClearance == Q(100, 1000)
feedRate == Q(2, 1000)
G75Functional == FALSE

RECURSIVE Pow10(_)
Pow10(k) == IF k = 0 THEN 1 ELSE 10 * Pow10(k - 1)

\* +v.toFixed(global.decimals): v rounded to `decimals` places, ties away
\* from zero
ToFixed(v) ==
    IF ~IsFinite(v) THEN (IF v = Undef THEN NaN ELSE v)
    ELSE LET p == Pow10(decimals)
             m == (2 * Abs(v[1]) * p + v[2]) \div (2 * v[2])
         IN  Q((IF v[1] < 0 THEN -1 ELSE 1) * m, p)

\* ------------------------------------------------------------------------
\* Arrays (0-based, as in the source)
\* ------------------------------------------------------------------------
At(s, i) == IF i >= 0 /\ i < Len(s) THEN s[i + 1] ELSE Undef

\* an array index argument as an integer: NaN counts as 0, infinities clamp
ToIndex(a, len) ==
    IF IsFinite(a) THEN a[1] \div a[2]
    ELSE IF a = PosInf THEN len ELSE 0

Slice(s, a, b) ==
    LET lo == IF a < 0 THEN 0 ELSE a
        hi == IF b > Len(s) THEN Len(s) ELSE b
    IN  IF hi <= lo THEN << >> ELSE [k \in 1..(hi - lo) |-> s[lo + k]]

\* zPoints.indexOf(v)
IndexOf(s, v) ==
    IF \E k \in 1..Len(s) : StrictEq(s[k], v)
    THEN (CHOOSE k \in 1..Len(s) :
             StrictEq(s[k], v) /\ \A j \in 1..(k - 1) : ~StrictEq(s[j], v)) - 1
    ELSE -1

\* zPoints.findIndex(element => element > v)
FindIndexGt(s, v) ==
    IF \E k \in 1..Len(s) : Gt(s[k], v)
    THEN (CHOOSE k \in 1..Len(s) :
             Gt(s[k], v) /\ \A j \in 1..(k - 1) : ~Gt(s[j], v)) - 1
    ELSE -1

Reverse(s) == [k \in 1..Len(s) |-> s[Len(s) + 1 - k]]

\* ------------------------------------------------------------------------
\* Geometry types
\* ------------------------------------------------------------------------
DimensionPoint(x, z) == [x |-> x, z |-> z]

MovePoint(x, y, z) ==
    [x |-> x, y |-> y, z |-> z,
     axesPresent |-> [x |-> x # Undef, y |-> y # Undef, z |-> z # Undef]]

getMovePoint(p) == MovePoint(p.x, Undef, p.z)

\* the insertion of a sort on a.z - b.z: smallest z first
RECURSIVE InsertDesc_Ascending(_, _)
InsertDesc_Ascending(s, p) ==
    IF Len(s) = 0 THEN <<p>>
    ELSE IF Lt(p.z, s[Len(s)].z)
         THEN InsertDesc_Ascending(SubSeq(s, 1, Len(s) - 1), p) \o <<s[Len(s)]>>
         ELSE s \o <<p>>

\* insert p into the z-descending sequence s behind every element that does
\* not compare after it (comparator b.z - a.z, stable)
RECURSIVE InsertDesc(_, _)
InsertDesc(s, p) ==
    IF Len(s) = 0 THEN <<p>>
    ELSE IF Gt(p.z, s[Len(s)].z)
         THEN InsertDesc(SubSeq(s, 1, Len(s) - 1), p) \o <<s[Len(s)]>>
         ELSE s \o <<p>>

RECURSIVE SortDescZ(_)
SortDescZ(s) ==
    IF Len(s) = 0 THEN << >>
    ELSE InsertDesc(SortDescZ(SubSeq(s, 1, Len(s) - 1)), s[Len(s)])

\* machining points left in the section's own range [0, length]
SectionMachiningPoints_Unshifted(points, length) ==
    SortDescZ([k \in 1..Len(points) |->
                  DimensionPoint(points[k].x, Add(Neg(points[k].z), length))])

SectionMachiningPoints(points, length) ==
    LET flipped == [k \in 1..Len(points) |->
                       DimensionPoint(points[k].x, Add(Neg(points[k].z), length))]
        sorted == SortDescZ(flipped)
    IN  [k \in 1..Len(sorted) |->
            DimensionPoint(sorted[k].x, Sub(sorted[k].z, stickout))]

Section(points) ==
    LET length == MathMax([k \in 1..Len(points) |-> points[k].z])
    IN  [points |-> points,
         length |-> length,
         maxDiameter |-> MathMax([k \in 1..Len(points) |-> points[k].x]),
         machiningPoints |-> SectionMachiningPoints(points, length)]

getLengthOffsetPoint(section, index) ==
    DimensionPoint(At(section.points, index).x,
                   Sub(At(section.points, index).z, section.length))

\* ------------------------------------------------------------------------
\* Segmenter
\* ------------------------------------------------------------------------
organizedPoints(xPts, zPts) ==
    [k \in 1..Len(xPts) |-> DimensionPoint(xPts[k], At(zPts, k - 1))]

\* SectionEnd without the interpolation of x: the predecessor's diameter is
\* taken for the boundary point
SectionEnd_NoInterp(xPts, zPts, i) ==
    LET b == Mul(Num(i + 1), stickout)
    IN  IF IndexOf(zPts, b) = -1
        THEN LET f == FindIndexGt(zPts, b)
                 ei == Add(Num(f - 1),
                           Div(Sub(b, At(zPts, f - 1)),
                               Sub(At(zPts, f), At(zPts, f - 1))))
             IN  [endIndex |-> ei,
                  x |-> At(xPts, f - 1),
                  z |-> Add(At(zPts, f - 1),
                            Mul(Mod1(ei), Sub(At(zPts, f), At(zPts, f - 1))))]
        ELSE LET e == IndexOf(zPts, b)
             IN  [endIndex |-> Num(e), x |-> At(xPts, e), z |-> At(zPts, e)]

\* the end index and end point of section i (i < numSections - 1)
SectionEnd(xPts, zPts, i) ==
    LET b == Mul(Num(i + 1), stickout)
    IN  IF IndexOf(zPts, b) = -1
        THEN LET f == FindIndexGt(zPts, b)
                 ei == Add(Num(f - 1),
                           Div(Sub(b, At(zPts, f - 1)),
                               Sub(At(zPts, f), At(zPts, f - 1))))
             IN  [endIndex |-> ei,
                  x |-> Add(At(xPts, f - 1),
                            Mul(Mod1(ei), Sub(At(xPts, f), At(xPts, f - 1)))),
                  z |-> Add(At(zPts, f - 1),
                            Mul(Mod1(ei), Sub(At(zPts, f), At(zPts, f - 1))))]
        ELSE LET e == IndexOf(zPts, b)
             IN  [endIndex |-> Num(e), x |-> At(xPts, e), z |-> At(zPts, e)]

\* IncludedPoints with the slice ending one element early
IncludedPoints_DropEnd(xPts, zPts, startIndex, startPoint, endIndex, endPoint, withEnd, off) ==
    LET org == organizedPoints(xPts, zPts)
        whole == Slice(org, ToIndex(MathCeil(startIndex), Len(org)),
                       ToIndex(MathFloor(endIndex), Len(org)))
    IN  (IF Truthy(Mod1(startIndex))
         THEN <<DimensionPoint(startPoint.x, Sub(startPoint.z, off))>>
         ELSE << >>)
        \o [k \in 1..Len(whole) |-> DimensionPoint(whole[k].x, Sub(whole[k].z, off))]
        \o (IF withEnd /\ Truthy(Mod1(endIndex))
            THEN <<DimensionPoint(endPoint.x, Sub(endPoint.z, off))>>
            ELSE << >>)

\* the points of one section: start index/point, end index/point, z offset
IncludedPoints(xPts, zPts, startIndex, startPoint, endIndex, endPoint, withEnd, off) ==
    LET org == organizedPoints(xPts, zPts)
        whole == Slice(org, ToIndex(MathCeil(startIndex), Len(org)),
                       ToIndex(Add(MathFloor(endIndex), Num(1)), Len(org)))
    IN  (IF Truthy(Mod1(startIndex))
         THEN <<DimensionPoint(startPoint.x, Sub(startPoint.z, off))>>
         ELSE << >>)
        \o [k \in 1..Len(whole) |-> DimensionPoint(whole[k].x, Sub(whole[k].z, off))]
        \o (IF withEnd /\ Truthy(Mod1(endIndex))
            THEN <<DimensionPoint(endPoint.x, Sub(endPoint.z, off))>>
            ELSE << >>)

\* the z offset subtracted from the points of the section built in loop
\* iteration i, resp. of the final section
SectionOffset(numSections, i) ==
    IF Lt(Num(i), Sub(numSections, Num(1))) THEN Mul(Num(i), stickout)
    ELSE Mul(Sub(numSections, Num(1)), stickout)

\* the loop over all but the last section, from iteration i on, followed by
\* the final section
RECURSIVE SectionLoop(_, _, _, _, _, _)
SectionLoop(xPts, zPts, numSections, i, startIndex, startPoint) ==
    IF Lt(Num(i), Sub(numSections, Num(1)))
    THEN LET e == SectionEnd(xPts, zPts, i)
             endPoint == [x |-> e.x, z |-> e.z]
             inc == IncludedPoints(xPts, zPts, startIndex, startPoint,
                                   e.endIndex, endPoint, TRUE,
                                   SectionOffset(numSections, i))
         IN  <<Section(inc)>>
             \o SectionLoop(xPts, zPts, numSections, i + 1, e.endIndex, endPoint)
    ELSE LET inc == IncludedPoints(xPts, zPts, startIndex, startPoint,
                                   Num(Len(xPts) - 1), startPoint, FALSE,
                                   SectionOffset(numSections, i))
         IN  <<Section(inc)>>

\* NumSections counting floor + 1 sections
NumSections_FloorPlusOne(zPts) ==
    Add(MathFloor(Div(MathMax(zPts), stickout)), Num(1))

NumSections(zPts) == MathCeil(Div(MathMax(zPts), stickout))

interpolatePoints(xPts, zPts) ==
    SectionLoop(xPts, zPts, NumSections(zPts), 0, Num(0),
                [x |-> At(xPts, 0), z |-> At(zPts, 0)])

\* ------------------------------------------------------------------------
\* Command emitter
\* ------------------------------------------------------------------------
\* one word of output text: a letter or code w with number v, or a comment c
Word(w, v) == [w |-> w, v |-> v, c |-> ""]
Code(w) == [w |-> w, v |-> Undef, c |-> ""]
Comment(c) == [w |-> "(", v |-> Undef, c |-> c]
NL == Code("\n")
\* an omitted comment argument
NoComment == "undefined"

initialState ==
    [lastGCode |-> "None",
     lastFeed |-> Num(-1),
     position |-> [x |-> Undef, y |-> Undef, z |-> Undef]]

\* of the present axes none differs from the current position
AtPosition(st, point) ==
    /\ ~point.axesPresent.x \/ StrictEq(point.x, st.position.x)
    /\ ~point.axesPresent.y \/ StrictEq(point.y, st.position.y)
    /\ ~point.axesPresent.z \/ StrictEq(point.z, st.position.z)

\* the axis words of a motion command: axes present and new
AxisWords(st, point) ==
    (IF point.axesPresent.x /\ ~StrictEq(point.x, st.position.x)
     THEN <<Word("X", ToFixed(point.x))>> ELSE << >>)
    \o (IF point.axesPresent.y /\ ~StrictEq(point.y, st.position.y)
        THEN <<Word("Y", ToFixed(point.y))>> ELSE << >>)
    \o (IF point.axesPresent.z /\ ~StrictEq(point.z, st.position.z)
        THEN <<Word("Z", ToFixed(point.z))>> ELSE << >>)

CommentWords(comment) ==
    IF comment # NoComment THEN <<Comment(comment)>> ELSE << >>

\* rapidPosition that leaves the last G code as it was
rapidPosition_KeepMode(st, point, comment) ==
    IF AtPosition(st, point) THEN [state |-> st, code |-> << >>, returns |-> TRUE]
    ELSE [returns |-> TRUE,
          state |-> [st EXCEPT !.lastFeed = Num(-1)],
          code |-> (IF st.lastGCode # "00" THEN <<Code("G00")>> ELSE << >>)
                   \o AxisWords(st, point)
                   \o CommentWords(comment)
                   \o <<NL>>]

rapidPosition(st, point, comment) ==
    IF AtPosition(st, point) THEN [state |-> st, code |-> << >>, returns |-> TRUE]
    ELSE [returns |-> TRUE,
          state |-> [st EXCEPT !.lastGCode = "00", !.lastFeed = Num(-1)],
          code |-> (IF st.lastGCode # "00" THEN <<Code("G00")>> ELSE << >>)
                   \o AxisWords(st, point)
                   \o CommentWords(comment)
                   \o <<NL>>]

\* linearInterpolation that forgets the feed it printed
linearInterpolation_ForgetFeed(st, point, feed, comment) ==
    IF AtPosition(st, point) THEN [state |-> st, code |-> << >>, returns |-> TRUE]
    ELSE [returns |-> TRUE,
          state |-> [st EXCEPT !.lastGCode = "01", !.lastFeed = Num(-1)],
          code |-> (IF st.lastGCode # "01" THEN <<Code("G01")>> ELSE << >>)
                   \o AxisWords(st, point)
                   \o (IF feed # Undef /\ ~StrictEq(feed, st.lastFeed)
                       THEN <<Word("F", ToFixed(feed))>> ELSE << >>)
                   \o CommentWords(comment)
                   \o <<NL>>]

\* boxCycle without the reset of the last mode
boxCycle_KeepMode(st, startPoint, endPoint, finishBufferRadius, feed, comment) ==
    LET r == rapidPosition(st, getMovePoint(startPoint), NoComment)
    IN  [returns |-> TRUE,
         state |-> r.state,
         code |-> r.code
                  \o <<Code("G74"),
                       Word("X", ToFixed(endPoint.x)),
                       Word("X", ToFixed(endPoint.z)),
                       Word("I", ToFixed(Div(depthsMax, Num(2)))),
                       Word("U", ToFixed(finishBufferRadius)),
                       Word("F", ToFixed(feed))>>
                  \o CommentWords(comment)
                  \o <<NL>>]

linearInterpolation(st, point, feed, comment) ==
    IF AtPosition(st, point) THEN [state |-> st, code |-> << >>, returns |-> TRUE]
    ELSE [returns |-> TRUE,
          state |-> [st EXCEPT !.lastGCode = "01",
                               !.lastFeed = IF feed = Undef THEN Num(-1) ELSE feed],
          code |-> (IF st.lastGCode # "01" THEN <<Code("G01")>> ELSE << >>)
                   \o AxisWords(st, point)
                   \o (IF feed # Undef /\ ~StrictEq(feed, st.lastFeed)
                       THEN <<Word("F", ToFixed(feed))>> ELSE << >>)
                   \o CommentWords(comment)
                   \o <<NL>>]

boxCycle(st, startPoint, endPoint, finishBufferRadius, feed, comment) ==
    LET r == rapidPosition(st, getMovePoint(startPoint), NoComment)
    IN  [returns |-> TRUE,
         state |-> [r.state EXCEPT !.lastGCode = "None"],
         code |-> r.code
                  \o <<Code("G74"),
                       Word("X", ToFixed(endPoint.x)),
                       Word("X", ToFixed(endPoint.z)),
                       Word("I", ToFixed(Div(depthsMax, Num(2)))),
                       Word("U", ToFixed(finishBufferRadius)),
                       Word("F", ToFixed(feed))>>
                  \o CommentWords(comment)
                  \o <<NL>>]

\* ------------------------------------------------------------------------
\* Contour cycle
\* ------------------------------------------------------------------------
\* a function result: the emitter state after it, the text it built, and
\* whether the text is handed back with a return statement. Two history
\* fields follow the run: built is the text the function built whether or
\* not it hands it back, calls the calls it made in order.
Result(st, text) ==
    [state |-> st, code |-> text, returns |-> TRUE, built |-> text, calls |-> << >>]

\* statements run in sequence: the call that gave r is evaluated before e
Then(r, e) == IF DOMAIN r # {} THEN e ELSE e

\* what `code += f(...)` appends: a function without return value yields the
\* word undefined
Appended(r) == IF r.returns THEN r.code ELSE <<Code("undefined")>>

\* history: the text a call built and the calls made inside it
Built(r) == IF "built" \in DOMAIN r THEN r.built ELSE r.code
Calls(r) == IF "calls" \in DOMAIN r THEN r.calls ELSE << >>

\* let code = ""
Start(st) == Result(st, << >>)

\* code += "..."
Text(acc, words) ==
    Then(acc, [acc EXCEPT !.code = @ \o words, !.built = @ \o words])

Join(acc, tag, r) ==
    Then(r, [state |-> r.state,
             code |-> acc.code \o Appended(r),
             returns |-> TRUE,
             built |-> acc.built \o Built(r),
             calls |-> acc.calls \o <<[tag |-> tag, before |-> acc.state,
                                       code |-> Built(r), appended |-> Appended(r),
                                              calls |-> Calls(r)]>>])

\* code += f(...), f running on the emitter state the statements before it
\* left. A function body is the nesting of its statements, the first one
\* innermost.
Call(acc, tag, f(_)) == Then(acc, Join(acc, tag, f(acc.state)))

\* the statement making its move as a linear one
Rapid_AsLinear(acc, point, comment) ==
    Call(acc, [f |-> "rapidPosition", point |-> point],
         LAMBDA s : linearInterpolation(s, point, Undef, comment))

\* code += rapidPosition(point, comment)
Rapid(acc, point, comment) ==
    Call(acc, [f |-> "rapidPosition", point |-> point],
         LAMBDA s : rapidPosition(s, point, comment))

\* code += linearInterpolation(point, feed, comment)
Linear(acc, point, feed, comment) ==
    Call(acc, [f |-> "linearInterpolation", point |-> point, feed |-> feed],
         LAMBDA s : linearInterpolation(s, point, feed, comment))

RECURSIVE taperLines(_)
taperLines(points) ==
    IF Len(points) = 0 THEN << >>
    ELSE <<Word("X", ToFixed(Head(points).x)), Word("Z", ToFixed(Head(points).z)), NL>>
         \o taperLines(Tail(points))

taperSubroutine(id, points) == taperLines(points) \o <<Code("RF"), NL>>

\* the pass count for twice the cut depth per pass
numPasses_Doubled(xVals, startX, I) ==
    MathCeil(Div(Sub(startX, MathMin(xVals)), Mul(Num(4), I)))

\* Math.ceil((startX - Math.min(...xVals)) / (2 * I))
numPasses(xVals, startX, I) ==
    MathCeil(Div(Sub(startX, MathMin(xVals)), Mul(Num(2), I)))

\* the steps of a subdivision that reaches the contour one pass early
xDeltas_OneFewer(xVals, startX, n) ==
    [k \in 1..Len(xVals) |-> Div(Sub(startX, xVals[k]), Sub(n, Num(1)))]

\* xVals.map(val => (startX - val) / numPasses)
xDeltas(xVals, startX, n) ==
    [k \in 1..Len(xVals) |-> Div(Sub(startX, xVals[k]), n)]

\* genMultiPassPoints without the final push of the points themselves
genMultiPassPoints_ScaledOnly(points, startX, I) ==
    LET xVals == [k \in 1..Len(points) |-> points[k].x]
        n == numPasses(xVals, startX, I)
        deltas == xDeltas(xVals, startX, n)
        scaled == IF IsFinite(n) /\ n[1] > 1 THEN n[1] - 1 ELSE 0
    IN  [i \in 1..scaled |->
            [k \in 1..Len(points) |->
                DimensionPoint(Sub(startX, Mul(Num(i), deltas[k])), points[k].z)]]

genMultiPassPoints(points, startX, I) ==
    LET xVals == [k \in 1..Len(points) |-> points[k].x]
        n == numPasses(xVals, startX, I)
        deltas == xDeltas(xVals, startX, n)
        scaled == IF IsFinite(n) /\ n[1] > 1 THEN n[1] - 1 ELSE 0
    IN  [i \in 1..scaled |->
            [k \in 1..Len(points) |->
                DimensionPoint(Sub(startX, Mul(Num(i), deltas[k])), points[k].z)]]
        \o <<points>>

\* points.forEach(point => code += linearInterpolation(point, feed))
RECURSIVE linearMoves(_, _, _)
linearMoves(acc, points, feed) ==
    IF Len(points) = 0 THEN acc
    ELSE linearMoves(Linear(acc, Head(points), feed, NoComment), Tail(points), feed)

basicTaper(st, points, feed) ==
    LET startZ == st.position.z
        maxX == MathMax([k \in 1..Len(points) |-> points[k].x])
    IN  Rapid(Linear(linearMoves(Start(st), points, feed),
        MovePoint(Add(maxX, xClearance), Undef, Undef), Undef, NoComment),
        MovePoint(Undef, Undef, startZ), NoComment)

\* code += basicTaper(points, feed)
Taper(acc, points, feed) ==
    Call(acc, [f |-> "basicTaper", points |-> points],
         LAMBDA s : basicTaper(s, points, feed))

\* the move points taken a clearance above the points
MovePoints_Cleared(points) ==
    [k \in 1..Len(points) |-> MovePoint(Add(points[k].x, xClearance), Undef, points[k].z)]

MovePoints(points) == [k \in 1..Len(points) |-> getMovePoint(points[k])]

\* for (let pass of passes) { basicTaper; move out; rapid back }
RECURSIVE passLoop(_, _, _, _, _)
passLoop(acc, passes, maxDiam, origPoint, F) ==
    IF Len(passes) = 0 THEN acc
    ELSE passLoop(
        Rapid(Linear(Taper(acc,
        MovePoints(Head(passes)), F),
        MovePoint(Add(maxDiam, xClearance), Undef, Undef), F, NoComment),
        MovePoint(Undef, Undef, Add(origPoint.z, zClearance)), NoComment),
        Tail(passes), maxDiam, origPoint, F)

\* the function ends without a return statement
NoReturn(acc) == [acc EXCEPT !.returns = FALSE]

\* the contour moved out by the allowance once, as a radius
finishSpacedPoints_Radius(points, U) ==
    [k \in 1..Len(points) |-> DimensionPoint(Add(points[k].x, U), points[k].z)]

\* points.map(point => new DimensionPoint(point.x + 2 * U, point.z))
finishSpacedPoints(points, U) ==
    [k \in 1..Len(points) |->
        DimensionPoint(Add(points[k].x, Mul(Num(2), U)), points[k].z)]

\* the roughing passes simG75 asks for
simG75Passes(points, I, U) ==
    genMultiPassPoints(
        finishSpacedPoints(points, U),
        MathMax([k \in 1..Len(points) |-> finishSpacedPoints(points, U)[k].x]),
        I)

simG75(st, points, I, U, F) ==
    LET maxDiam == MathMax([k \in 1..Len(points) |-> finishSpacedPoints(points, U)[k].x])
        clearZ == MathMin([k \in 1..Len(points) |-> finishSpacedPoints(points, U)[k].z])
        origPoint == MovePoint(st.position.x, st.position.y, st.position.z)
        box == IF origPoint.x # Undef /\ Lt(maxDiam, origPoint.x)
               THEN <<Code("G74"), Word("X", maxDiam), Word("Z", clearZ),
                      Word("I", I), Word("U", Num(0)), Word("F", F), NL>>
               ELSE << >>
    IN  NoReturn(Linear(passLoop(Text(Start(st),
        box),
        simG75Passes(points, I, U), maxDiam, origPoint, F),
        origPoint, F, NoComment))

contourCycle(st, startPoint, points, subroutineID, finishBufferRadius, feed, comment) ==
    IF G75Functional
    THEN LET m == linearInterpolation(st, getMovePoint(startPoint), feed,
                                      "Beginning G75 contour cycle")
             words == <<Code("G75"),
                        Word("I", ToFixed(Div(depthsMax, Num(2)))),
                        Word("U", ToFixed(finishBufferRadius)),
                        Word("F", ToFixed(feed))>>
                      \o CommentWords(comment)
                      \o <<NL>>
                      \o taperSubroutine(subroutineID, points)
         IN  Result([m.state EXCEPT !.lastGCode = "None"], m.code \o words)
    ELSE Call(Linear(Start(st),
         getMovePoint(startPoint), feed,
         IF comment = NoComment THEN "Simulated G75 Contour cycle"
         ELSE "Simulated G75 Contour cycle - " \o comment),
         [f |-> "simG75", points |-> points, I |-> Div(depthsMax, Num(2)),
          U |-> finishBufferRadius],
         LAMBDA s : simG75(s, points, Div(depthsMax, Num(2)), finishBufferRadius, feed))

\* ------------------------------------------------------------------------
\* Section cycle
\* ------------------------------------------------------------------------
RangeErrorMessage ==
    "Provided taper includes diameter(s) exceeding provided start diameter, taper will not be accurate!"
TypeErrorMessage == "Cannot read properties of undefined"

\* a function that threw: no text is returned, the emitter state is as the
\* calls made before the throw left it
\* an error raised after the emitter was put back to its initial state
Thrown_Reset(st, message) ==
    [state |-> initialState, code |-> << >>, thrown |-> TRUE, message |-> message,
     built |-> << >>, calls |-> << >>]

Thrown(st, message) ==
    [state |-> st, code |-> << >>, thrown |-> TRUE, message |-> message,
     built |-> << >>, calls |-> << >>]
Returned(acc) ==
    [state |-> acc.state, code |-> acc.code, thrown |-> FALSE, message |-> "",
     built |-> acc.built, calls |-> acc.calls]

\* the containment check made on the smallest diameter of the section
ExceedsStock_MinDiameter(section, startDiameter) ==
    Gt(MathMin([k \in 1..Len(section.points) |-> section.points[k].x]), startDiameter)

\* the section needs more material than the stock has
ExceedsStock(section, startDiameter) == Gt(section.maxDiameter, startDiameter)

\* a section cut without starting the spindle
StartSpindle_Missing == << >>

\* code += `M03S${global.rpm}\n`
StartSpindle == <<Code("M03"), Word("S", Num(rpm)), NL>>

sectionCycle(st, startDiameter, section, subroutineID) ==
    IF ExceedsStock(section, startDiameter)
    THEN Thrown(st, RangeErrorMessage)
    ELSE IF Len(section.machiningPoints) = 0
    THEN Thrown(st, TypeErrorMessage)
    ELSE
    LET mp == section.machiningPoints
        safeX == Add(startDiameter, xClearance)
        safeZ == Add(Sub(section.length, stickout), zClearance)
    IN  Returned(Text(Rapid(Taper(Call(Text(Text(Linear(Text(Linear(Text(Start(st),
        <<Code("G94"), Word("F", Mul(Num(rpm), feedRate)), NL>>),
        MovePoint(Add(mp[1].x, xClearance), Undef, mp[1].z), Undef, NoComment),
        <<Code("M01"), Comment("Move stock to appropriate position"), NL>>),
        MovePoint(safeX, Undef, safeZ), Undef, NoComment),
        StartSpindle),
        <<Code("G95"), Word("F", feedRate), NL>>),
        [f |-> "contourCycle", startPoint |-> DimensionPoint(safeX, safeZ),
         points |-> mp],
        LAMBDA s : contourCycle(s, DimensionPoint(safeX, safeZ), mp, subroutineID,
                                Div(depthsMax, Num(4)), feedRate, NoComment)),
        MovePoints(mp), feedRate),
        MovePoint(safeX, Undef, zClearance), NoComment),
        <<Code("M05"), NL>>))

\* ------------------------------------------------------------------------
\* Program assembly (genCode)
\* ------------------------------------------------------------------------
\* a non-numeric or empty cell is modelled by NaN
IsNumericCell(v) == IsFinite(v)

RECURSIVE Filter(_)
Filter(cells) ==
    IF Len(cells) = 0 THEN << >>
    ELSE (IF IsNumericCell(Head(cells)) THEN <<Head(cells)>> ELSE << >>)
         \o Filter(Tail(cells))

\* an omitted optLocationList
NoList == [given |-> FALSE, cells |-> << >>]
Given(cells) == [given |-> TRUE, cells |-> cells]

DefaultLocations(n) == [k \in 1..n |-> Mul(Num(k - 1), Q(25, 100))]

\* insert p into the z-ascending sequence s behind every element that is
\* not greater (comparator on a.z, b.z; stable)
RECURSIVE InsertAsc(_, _)
InsertAsc(s, p) ==
    IF Len(s) = 0 THEN <<p>>
    ELSE IF Lt(p.z, s[Len(s)].z)
         THEN InsertAsc(SubSeq(s, 1, Len(s) - 1), p) \o <<s[Len(s)]>>
         ELSE s \o <<p>>

RECURSIVE SortAscZ(_)
SortAscZ(s) ==
    IF Len(s) = 0 THEN << >>
    ELSE InsertAsc(SortAscZ(SubSeq(s, 1, Len(s) - 1)), s[Len(s)])

MismatchMessage == "Diameters and locations contain unqual numbers of valid data points."
Message(m) == [w |-> "message", v |-> Undef, c |-> m]

\* the cleaned, sorted and oriented point lists, or the mismatch
Prepare(diameterList, optLocationList) ==
    LET filteredD == Filter(diameterList)
        numDiametersRemoved == Len(diameterList) - Len(filteredD)
        filteredL == Filter(optLocationList.cells)
        numPointsRemoved ==
            IF optLocationList.given THEN Len(optLocationList.cells) - Len(filteredL)
            ELSE -1
        mismatch == optLocationList.given /\ Len(filteredL) # Len(filteredD)
        tempObjects ==
            SortAscZ([k \in 1..Len(filteredD) |-> DimensionPoint(filteredD[k], filteredL[k])])
        d == IF optLocationList.given
             THEN [k \in 1..Len(tempObjects) |-> tempObjects[k].x]
             ELSE filteredD
        l == IF optLocationList.given
             THEN [k \in 1..Len(tempObjects) |-> tempObjects[k].z]
             ELSE DefaultLocations(Len(filteredD))
        \* the reversal re-offsets nothing: the forEach discards its values
        flip == Len(d) > 0 /\ Gt(d[1], d[Len(d)])
    IN  [mismatch |-> mismatch,
         diameterPoints |-> IF mismatch THEN << >> ELSE IF flip THEN Reverse(d) ELSE d,
         locationPoints |-> IF mismatch THEN << >> ELSE l,
         numDiametersRemoved |-> numDiametersRemoved,
         numPointsRemoved |-> numPointsRemoved]

Notes(nD, nP) ==
    IF nD > 0 \/ nP > 0
    THEN IF nD = nP
         THEN <<Word("(NOTE - data pairs ignored)", Num(nD)), NL>>
         ELSE (IF nD > 0 THEN <<Word("(NOTE - diameters ignored)", Num(nD)), NL>>
               ELSE << >>)
              \o (IF nP > 0 THEN <<Word("(NOTE - point locations ignored)", Num(nP)), NL>>
                  ELSE << >>)
    ELSE << >>

Header(stockDiameter, nD, nP) ==
    Notes(nD, nP)
    \o <<Comment("OMalley Brass"), NL,
         Word("(inch part stickout)", stickout), NL,
         Word("(inch diameter stock)", stockDiameter), NL,
         Comment("T1 OD Cutter"), NL,
         Comment("Code generation by Jeremy Peplinski"), NL,
         Comment("Executed <date>"), NL,
         Code("G72"), Code("G90"), Code("G97"), Code("G95"), Word("F", feedRate), NL,
         Code("T1"), NL>>

SectionMarker(i) == <<Word("(Section)", Num(i + 1)), NL>>

\* the catch block handing back the text built so far with the message
OnError_KeepText(text, message) == text \o <<Message(message)>>

\* catch (err) { return err.message }
OnError(text, message) == <<Message(message)>>

\* ------------------------------------------------------------------------
\* State
\* ------------------------------------------------------------------------
VARIABLES
    pc,         \* position of the run
    xPoints,    \* diameters handed to interpolatePoints
    zPoints,    \* positions handed to interpolatePoints
    sections,   \* the sections interpolatePoints returned
    state,      \* the emitter state (var state)
    call,       \* history: the latest emitter call, its arguments and result
    prev,       \* history: the emitter call before it
    lastCmd,    \* history: kind of the command emitted last
    lastKnown,  \* history: per axis, the target of the latest motion call
                \* that had the axis present
    args,       \* the arguments of the genCode invocation under way
    codeText,   \* genCode's codeText
    i,          \* genCode's section loop index
    result,     \* what genCode returned
    cycle       \* history: the latest sectionCycle call and its outcome

vars == <<pc, xPoints, zPoints, sections, state, call, prev, lastCmd, lastKnown,
          args, codeText, i, result, cycle>>

NoPoint == MovePoint(Undef, Undef, Undef)
NoCall ==
    [op |-> "none", point |-> NoPoint, feed |-> Undef, code |-> << >>,
     built |-> << >>, before |-> initialState, cmdBefore |-> "none",
     knownBefore |-> [x |-> Undef, y |-> Undef, z |-> Undef]]

EmitterIdle ==
    /\ state = initialState
    /\ call = NoCall
    /\ prev = [op |-> "none", point |-> NoPoint, feed |-> Undef, code |-> << >>]
    /\ lastCmd = "none"
    /\ lastKnown = [x |-> Undef, y |-> Undef, z |-> Undef]

emitterVars == <<state, call, prev, lastCmd, lastKnown>>
historyVars == <<call, prev, lastCmd, lastKnown>>
segVars == <<xPoints, zPoints, sections>>
genVars == <<args, codeText, i, result, cycle>>

NoArgs == [stockDiameter |-> Undef, diameterList |-> << >>, optLocationList |-> NoList]
NoCycle ==
    [called |-> FALSE, startDiameter |-> Undef, section |-> Section(<< >>),
     thrown |-> FALSE, code |-> << >>, before |-> initialState,
     built |-> << >>, calls |-> << >>]

GenIdle ==
    /\ args = NoArgs
    /\ codeText = << >>
    /\ i = 0
    /\ result = << >>
    /\ cycle = NoCycle

\* ------------------------------------------------------------------------
\* Inputs
\* ------------------------------------------------------------------------
Diameters == {Q(30, 100), Q(40, 100), Q(60, 100)}

\* positions are multiples of 1/2
ZGrid == {Q(k, 2) : k \in 0..MaxZ}

\* position lists sorted ascending, starting at z = 0
OrderedZ(n) ==
    {zs \in [1..n -> ZGrid] :
        /\ zs[1] = Num(0)
        /\ \A k \in 1..(n - 1) : Le(zs[k], zs[k + 1])}

\* targets and feeds of single emitter calls
XTargets == {Undef, Q(1, 2), Q(1, 4)}
YTargets == {Undef, Num(0)}
ZTargets == {Undef, Q(1, 10)}
Feeds == {Undef, feedRate, Num(3)}

\* ------------------------------------------------------------------------
\* The segmenter on its own
\* ------------------------------------------------------------------------
InitSeg ==
    /\ pc = "seg_input"
    /\ \E n \in 2..MaxPts :
          /\ xPoints \in [1..n -> Diameters]
          /\ zPoints \in OrderedZ(n)
    /\ sections = << >>
    /\ EmitterIdle
    /\ GenIdle

InterpolatePointsCall ==
    /\ pc = "seg_input"
    /\ sections' = interpolatePoints(xPoints, zPoints)
    /\ pc' = "seg_done"
    /\ UNCHANGED <<xPoints, zPoints>>
    /\ UNCHANGED emitterVars
    /\ UNCHANGED genVars

NextSeg == InterpolatePointsCall

SpecSeg == InitSeg /\ [][NextSeg]_vars

\* ------------------------------------------------------------------------
\* The emitter on its own: any sequence of calls
\* ------------------------------------------------------------------------
InitEmit ==
    /\ pc = "emit"
    /\ xPoints = << >>
    /\ zPoints = << >>
    /\ sections = << >>
    /\ EmitterIdle
    /\ GenIdle

\* the lines of a text: the words between its newlines
RECURSIVE Lines(_)
Lines(text) ==
    IF Len(text) = 0 THEN << >>
    ELSE LET n == CHOOSE k \in 1..(Len(text) + 1) :
                      /\ k = Len(text) + 1 \/ text[k] = NL
                      /\ \A h \in 1..(k - 1) : text[h] # NL
         IN  <<SubSeq(text, 1, n - 1)>>
             \o (IF n >= Len(text) THEN << >> ELSE Lines(SubSeq(text, n + 1, Len(text))))

\* the kind of the last command in text, cmd when text is empty
CmdAfter(cmd, kind, text) == IF text = << >> THEN cmd ELSE kind

KnownAfter(known, point) ==
    [x |-> IF point.axesPresent.x THEN point.x ELSE known.x,
     y |-> IF point.axesPresent.y THEN point.y ELSE known.y,
     z |-> IF point.axesPresent.z THEN point.z ELSE known.z]

Record(op, point, feed, r, kind) ==
    /\ state' = r.state
    /\ call' = [op |-> op, point |-> point, feed |-> feed, code |-> r.code,
                built |-> Built(r),
                before |-> state, cmdBefore |-> lastCmd, knownBefore |-> lastKnown]
    /\ prev' = [op |-> call.op, point |-> call.point, feed |-> call.feed,
                code |-> call.code]
    /\ lastCmd' = CmdAfter(lastCmd, kind, r.code)
    /\ lastKnown' = KnownAfter(lastKnown, point)

RapidPositionCall ==
    /\ pc = "emit"
    /\ \E x \in XTargets, y \in YTargets, z \in ZTargets :
          LET point == MovePoint(x, y, z)
          IN  Record("rapid", point, Undef, rapidPosition(state, point, NoComment), "rapid")
    /\ UNCHANGED <<pc, xPoints, zPoints, sections>>
    /\ UNCHANGED genVars

LinearInterpolationCall ==
    /\ pc = "emit"
    /\ \E x \in XTargets, y \in YTargets, z \in ZTargets, feed \in Feeds :
          LET point == MovePoint(x, y, z)
          IN  Record("linear", point, feed,
                     linearInterpolation(state, point, feed, NoComment), "linear")
    /\ UNCHANGED <<pc, xPoints, zPoints, sections>>
    /\ UNCHANGED genVars

BoxCycleCall ==
    /\ pc = "emit"
    /\ \E x \in XTargets \ {Undef}, z \in ZTargets \ {Undef} :
          LET startPoint == DimensionPoint(x, z)
              endPoint == DimensionPoint(Q(1, 4), Num(-1))
          IN  Record("box", getMovePoint(startPoint), feedRate,
                     boxCycle(state, startPoint, endPoint, Num(0), feedRate, NoComment),
                     "cycle")
    /\ UNCHANGED <<pc, xPoints, zPoints, sections>>
    /\ UNCHANGED genVars

NextEmit == RapidPositionCall \/ LinearInterpolationCall \/ BoxCycleCall

SpecEmit == InitEmit /\ [][NextEmit]_vars

\* ------------------------------------------------------------------------
\* Program generation: genCode invocations one after the other
\* ------------------------------------------------------------------------
StockDiameters == {Q(50, 100)}

\* cell lists with at most one non-numeric cell
AtMostOneBad(cells) == Cardinality({k \in 1..Len(cells) : cells[k] = NaN}) <= 1

DiameterLists(n) ==
    {cells \in [1..n -> Diameters \cup {NaN}] : AtMostOneBad(cells)}

\* strictly ascending positions from z = 0, given in order, reversed, or in
\* order with one cell non-numeric
StrictZ(n) ==
    {zs \in OrderedZ(n) : \A k \in 1..(n - 1) : Lt(zs[k], zs[k + 1])}
Spoiled(cells) ==
    {cells} \cup {[cells EXCEPT ![k] = NaN] : k \in 1..Len(cells)}
LocationLists(n) ==
    {NoList} \cup
    {Given(cells) : cells \in UNION {Spoiled(zs) \cup {Reverse(zs)} : zs \in StrictZ(n)}}

InitGen ==
    /\ pc = "idle"
    /\ xPoints = << >>
    /\ zPoints = << >>
    /\ sections = << >>
    /\ EmitterIdle
    /\ GenIdle

\* genCode up to the section loop
GenCodeStart(stockDiameter, diameterList, optLocationList) ==
    LET p == Prepare(diameterList, optLocationList)
    IN  /\ args' = [stockDiameter |-> stockDiameter,
                    diameterList |-> diameterList,
                    optLocationList |-> optLocationList]
        /\ IF p.mismatch
           THEN /\ result' = <<Message(MismatchMessage)>>
                /\ pc' = "returned"
                /\ UNCHANGED <<xPoints, zPoints, sections, codeText>>
           ELSE /\ xPoints' = p.diameterPoints
                /\ zPoints' = p.locationPoints
                /\ sections' = interpolatePoints(p.diameterPoints, p.locationPoints)
                /\ codeText' = Header(stockDiameter, p.numDiametersRemoved,
                                      p.numPointsRemoved)
                /\ result' = << >>
                /\ pc' = "loop"
        /\ i' = 0
        /\ cycle' = NoCycle
        /\ UNCHANGED emitterVars

GenCodeBegin ==
    /\ pc = "idle"
    /\ \E n \in 2..MaxPts :
       \E stockDiameter \in StockDiameters,
          diameterList \in DiameterLists(n),
          optLocationList \in LocationLists(n) :
          GenCodeStart(stockDiameter, diameterList, optLocationList)

\* the arguments testGenCode passes
TestArgs ==
    [stockDiameter |-> Q(5, 10),
     diameterList |-> <<Q(335, 1000), Q(340, 1000), Q(345, 1000), Q(348, 1000),
                        Q(350, 1000), Q(353, 1000), Q(355, 1000), Q(360, 1000),
                        Q(366, 1000)>>,
     optLocationList |-> Given([k \in 1..9 |-> Q(k - 1, 4)])]

TestGenCode ==
    /\ pc = "idle"
    /\ GenCodeStart(TestArgs.stockDiameter, TestArgs.diameterList,
                    TestArgs.optLocationList)

\* one iteration of the section loop, inside the try block
GenCodeSection ==
    /\ pc = "loop"
    /\ i < Len(sections)
    /\ LET r == sectionCycle(state, args.stockDiameter, sections[i + 1], (i + 1) * 100)
           marked == codeText \o SectionMarker(i)
       IN  /\ state' = r.state
           /\ cycle' = [called |-> TRUE, startDiameter |-> args.stockDiameter,
                        section |-> sections[i + 1], thrown |-> r.thrown,
                        code |-> r.code, before |-> state,
                        built |-> r.built, calls |-> r.calls]
           /\ IF r.thrown
              THEN /\ codeText' = marked
                   /\ result' = OnError(marked, r.message)
                   /\ pc' = "returned"
                   /\ i' = i
              ELSE /\ codeText' = marked \o r.code
                   /\ i' = i + 1
                   /\ UNCHANGED <<result, pc>>
    /\ UNCHANGED <<xPoints, zPoints, sections, args>>
    /\ UNCHANGED historyVars

\* after the loop: program stop and return
GenCodeEnd ==
    /\ pc = "loop"
    /\ i = Len(sections)
    /\ codeText' = codeText \o <<Code("M30"), NL>>
    /\ result' = codeText'
    /\ pc' = "returned"
    /\ UNCHANGED <<xPoints, zPoints, sections, args, i, cycle>>
    /\ UNCHANGED emitterVars

\* the caller takes the result; the process lives on
GenCodeReturn ==
    /\ pc = "returned"
    /\ pc' = "idle"
    /\ xPoints' = << >>
    /\ zPoints' = << >>
    /\ sections' = << >>
    /\ args' = NoArgs
    /\ codeText' = << >>
    /\ i' = 0
    /\ result' = << >>
    /\ cycle' = NoCycle
    /\ UNCHANGED emitterVars

NextGen ==
    GenCodeBegin \/ TestGenCode \/ GenCodeSection \/ GenCodeEnd \/ GenCodeReturn

SpecGen == InitGen /\ [][NextGen]_vars

\* ------------------------------------------------------------------------
\* Segmentation properties
\* ------------------------------------------------------------------------
SegDone == pc = "seg_done"
maxZ == MathMax(zPoints)
NSec == Len(sections)
\* section k (0-based) and its points with k * stickout added back
Sec(k) == sections[k + 1]
AbsPoints(k) ==
    [m \in 1..Len(Sec(k).points) |->
        DimensionPoint(Sec(k).points[m].x,
                       Add(Sec(k).points[m].z, Mul(Num(k), stickout)))]
First(s) == s[1]
Last(s) == s[Len(s)]
\* b is a section boundary k * stickout strictly inside (0, maxZ)
InteriorBoundaries == {k \in 1..MaxZ : Lt(Mul(Num(k), stickout), maxZ)}

\* input point j (1-based), re-expressed relative to the start of section k
Rebased(j, k) ==
    DimensionPoint(xPoints[j], Sub(zPoints[j], SectionOffset(NumSections(zPoints), k)))
SectionsOf(j) ==
    {k \in 0..(NSec - 1) :
        \E m \in 1..Len(Sec(k).points) : Sec(k).points[m] = Rebased(j, k)}
OnInteriorBoundary(j) ==
    \E k \in InteriorBoundaries : zPoints[j] = Mul(Num(k), stickout)
FirstAtItsZ(j) == \A h \in 1..(j - 1) : zPoints[h] # zPoints[j]

\* C1: every input point, diameter unchanged, lies in exactly one section,
\* or in exactly two consecutive sections, as the last point of one and the
\* first point of the next, when its z is exactly on a section boundary.
C1_EveryPointPlaced ==
    SegDone =>
      \A j \in 1..Len(xPoints) :
        LET K == SectionsOf(j)
        IN  /\ \/ Cardinality(K) = 1
               \/ \E k \in 0..(NSec - 2) :
                     /\ K = {k, k + 1}
                     /\ zPoints[j] = Mul(Num(k + 1), stickout)
                     /\ Last(Sec(k).points) = Rebased(j, k)
                     /\ First(Sec(k + 1).points) = Rebased(j, k + 1)
            /\ (OnInteriorBoundary(j) /\ FirstAtItsZ(j)) => Cardinality(K) = 2

C1_Witness ==
    /\ SegDone
    /\ NSec = 3
    /\ \E j \in 1..Len(xPoints) : OnInteriorBoundary(j) /\ Cardinality(SectionsOf(j)) = 2
    /\ \E j \in 1..Len(xPoints) : ~OnInteriorBoundary(j) /\ Cardinality(SectionsOf(j)) = 1

\* the z values of the points of section k, k * stickout added back, ascend
Ascending(k) ==
    \A m \in 1..(Len(AbsPoints(k)) - 1) : Le(AbsPoints(k)[m].z, AbsPoints(k)[m + 1].z)

\* C2: with k * stickout added back, the sections' z-spans cover [0, maxZ]
\* without gap or overlap: section 0 starts at 0, section k ends at
\* (k + 1) * stickout where section k + 1 starts, the last one ends at maxZ.
C2_SpansCoverLength ==
    SegDone =>
      /\ First(AbsPoints(0)).z = Num(0)
      /\ \A k \in 0..(NSec - 2) :
            /\ Last(AbsPoints(k)).z = Mul(Num(k + 1), stickout)
            /\ First(AbsPoints(k + 1)).z = Mul(Num(k + 1), stickout)
      /\ Last(AbsPoints(NSec - 1)).z = maxZ
      /\ \A k \in 0..(NSec - 1) : Ascending(k)

\* the point linearly interpolated at boundary k * stickout between its
\* measured neighbours
Predecessor(k) ==
    CHOOSE j \in 1..(Len(zPoints) - 1) :
        Lt(zPoints[j], Mul(Num(k), stickout)) /\ Gt(zPoints[j + 1], Mul(Num(k), stickout))
Interpolated(k) ==
    LET b == Mul(Num(k), stickout)
        p == Predecessor(k)
        fraction == Div(Sub(b, zPoints[p]), Sub(zPoints[p + 1], zPoints[p]))
    IN  DimensionPoint(Add(xPoints[p], Mul(fraction, Sub(xPoints[p + 1], xPoints[p]))), b)
OffGrid(k) == \A j \in 1..Len(zPoints) : zPoints[j] # Mul(Num(k), stickout)

\* C3: a boundary k * stickout strictly between two measured points gets a
\* synthesized point at z = boundary whose x is the linear interpolation of
\* the neighbours; it ends section k - 1 and starts section k.  Points
\* (0.30, 0), (0.40, 2.0) give (0.35, 1.0).
C3_BoundaryInterpolated ==
    SegDone =>
      /\ \A k \in InteriorBoundaries :
            OffGrid(k) =>
              /\ Last(AbsPoints(k - 1)) = Interpolated(k)
              /\ First(AbsPoints(k)) = Interpolated(k)
      /\ (xPoints = <<Q(30, 100), Q(40, 100)>> /\ zPoints = <<Num(0), Num(2)>>)
            => Last(AbsPoints(0)) = DimensionPoint(Q(35, 100), Num(1))

\* one measured segment of changing diameter spans two boundaries
C3_Witness ==
    /\ SegDone
    /\ Len(xPoints) = 2
    /\ xPoints[1] # xPoints[2]
    /\ InteriorBoundaries = {1, 2}
    /\ OffGrid(1) /\ OffGrid(2)
    /\ Last(AbsPoints(1)) = Interpolated(2)

\* the least n with n * stickout >= maxZ
CeilOfLength ==
    CHOOSE n \in 0..(MaxZ + 1) :
        /\ Le(maxZ, Mul(Num(n), stickout))
        /\ n > 0 => Lt(Mul(Num(n - 1), stickout), maxZ)
ExactMultiple == \E n \in 1..MaxZ : maxZ = Mul(Num(n), stickout)

\* C4: for maxZ > 0 there are exactly ceil(maxZ / stickout) sections, and
\* when maxZ is a multiple of stickout the last section has length stickout.
C4_SectionCount ==
    (SegDone /\ Gt(maxZ, Num(0))) =>
      /\ NSec = CeilOfLength
      /\ ExactMultiple => Last(sections).length = stickout

C4_Witness ==
    /\ SegDone
    /\ maxZ = Num(2)
    /\ NSec = 2
    /\ Last(sections).length = stickout

\* ------------------------------------------------------------------------
\* Error handling properties
\* ------------------------------------------------------------------------
HasWord(text, w) == \E k \in 1..Len(text) : text[k].w = w

\* C5: sectionCycle called with section.maxDiameter > startDiameter signals
\* the error and produces no command text for that section.
C5_OversizeSectionRejected ==
    (cycle.called /\ Gt(cycle.section.maxDiameter, cycle.startDiameter)) =>
      /\ cycle.thrown
      /\ cycle.code = << >>
      /\ result = <<Message(RangeErrorMessage)>>

C5_Witness ==
    /\ cycle.called
    /\ Gt(cycle.section.maxDiameter, cycle.startDiameter)
    /\ cycle.thrown
    /\ pc = "returned"

\* C6: generation is all-or-nothing: when a section (also a later one)
\* fails, genCode returns the error message alone, without the header or the
\* text of the sections before; no result holds both program text and a
\* message.
C6_AllOrNothing ==
    pc = "returned" =>
      /\ cycle.thrown => (Len(result) = 1 /\ result[1].w = "message")
      /\ HasWord(result, "message") => Len(result) = 1
      /\ ~HasWord(result, "message") => result = codeText

\* the second or a later section failed after text had been generated
C6_Witness ==
    /\ pc = "returned"
    /\ cycle.thrown
    /\ i >= 1
    /\ HasWord(codeText, "M05")
    /\ result = <<Message(RangeErrorMessage)>>

\* ------------------------------------------------------------------------
\* Emitter properties
\* ------------------------------------------------------------------------
SomeAxisPresent(point) ==
    point.axesPresent.x \/ point.axesPresent.y \/ point.axesPresent.z
Emitted(c) == c.code # << >>

\* C7: the same MovePoint (some axis present) given to rapidPosition twice in
\* a row yields empty text the second time.
C7_SecondRapidEmpty ==
    (/\ prev.op = "rapid" /\ call.op = "rapid"
     /\ call.point = prev.point
     /\ SomeAxisPresent(call.point))
      => call.code = << >>

\* C8: the F word is printed by linearInterpolation only when a feed is given
\* that differs from the last feed, the last feed becomes the given feed (or
\* is cleared), and two consecutive linear moves given the same feed never
\* both print F.
C8_FeedWordOnce ==
    /\ (call.op = "linear" /\ Emitted(call)) =>
          /\ HasWord(call.code, "F") =>
                (call.feed # Undef /\ call.feed # call.before.lastFeed)
          /\ state.lastFeed = (IF call.feed = Undef THEN Num(-1) ELSE call.feed)
    /\ (prev.op = "linear" /\ call.op = "linear" /\ call.feed = prev.feed) =>
          ~(HasWord(prev.code, "F") /\ HasWord(call.code, "F"))

\* a linear move printed F, the next one with the same feed did not
C8_Witness ==
    /\ prev.op = "linear" /\ call.op = "linear"
    /\ call.feed = prev.feed /\ call.feed # Undef
    /\ HasWord(prev.code, "F")
    /\ Emitted(call) /\ ~HasWord(call.code, "F")

\* C9: G00 is printed only if the command emitted before was not a rapid
\* move, G01 only if it was not a linear move; two consecutive motion
\* commands of one mode never both print the mode word.
C9_ModeWordOnce ==
    /\ (call.op \in {"rapid", "box"} /\ HasWord(call.code, "G00")) =>
          call.cmdBefore # "rapid"
    /\ (call.op = "linear" /\ HasWord(call.code, "G01")) =>
          call.cmdBefore # "linear"
    /\ (prev.op = "rapid" /\ call.op = "rapid" /\ Emitted(prev)) =>
          ~(HasWord(prev.code, "G00") /\ HasWord(call.code, "G00"))
    /\ (prev.op = "linear" /\ call.op = "linear" /\ Emitted(prev)) =>
          ~(HasWord(prev.code, "G01") /\ HasWord(call.code, "G01"))

\* a rapid move printed G00, the rapid move after it did not
C9_Witness ==
    /\ prev.op = "rapid" /\ call.op = "rapid"
    /\ HasWord(prev.code, "G00")
    /\ Emitted(call) /\ ~HasWord(call.code, "G00")

\* C10: a motion command never prints the word of an axis whose target
\* equals the last known value of that axis.
C10_NoRepeatedAxisWord ==
    call.op \in {"rapid", "linear"} =>
      /\ HasWord(call.code, "X") => call.point.x # call.knownBefore.x
      /\ HasWord(call.code, "Y") => call.point.y # call.knownBefore.y
      /\ HasWord(call.code, "Z") => call.point.z # call.knownBefore.z

\* ------------------------------------------------------------------------
\* Contour cycle properties
\* ------------------------------------------------------------------------
\* the latest sectionCycle call ran to its return statement
CycleRan == cycle.called /\ ~cycle.thrown

\* the calls of function f among calls, in order
Nodes(calls, f) == SelectSeq(calls, LAMBDA n : n.tag.f = f)

ContourNode == Nodes(cycle.calls, "contourCycle")[1]
SimNode == Nodes(ContourNode.calls, "simG75")[1]
\* the basicTaper calls simG75 made: the roughing passes it ran
RoughingPasses == Nodes(SimNode.calls, "basicTaper")

\* the pass count genMultiPassPoints computes for the contour of SimNode
ComputedPasses ==
    LET pts == SimNode.tag.points
        off == [k \in 1..Len(pts) |-> Add(pts[k].x, Mul(Num(2), SimNode.tag.U))]
    IN  MathCeil(Div(Sub(MathMax(off), MathMin(off)), Mul(Num(2), SimNode.tag.I)))

LastPassIsOffsetContour ==
    LET pts == SimNode.tag.points
        last == RoughingPasses[Len(RoughingPasses)].tag.points
    IN  /\ Len(last) = Len(pts)
        /\ \A k \in 1..Len(pts) :
              /\ last[k].x = Add(pts[k].x, Mul(Num(2), SimNode.tag.U))
              /\ last[k].z = pts[k].z

\* C11: the last roughing pass simG75 runs is the contour with every x
\* raised by twice the finish allowance and every z unchanged, whatever the
\* computed pass count
C11_LastPassIsOffsetContour ==
    CycleRan => (Len(RoughingPasses) >= 1 /\ LastPassIsOffsetContour)

C11_Witness ==
    /\ CycleRan
    /\ Gt(ComputedPasses, Num(1))
    /\ Len(RoughingPasses) = ComputedPasses[1]
    /\ LastPassIsOffsetContour

\* the basicTaper call sectionCycle makes itself: the finishing pass
FinishNode == Nodes(cycle.calls, "basicTaper")[1]

\* the linear moves of a pass
LinearMovesOf(node) == Nodes(node.calls, "linearInterpolation")

FinishFollowsContour ==
    LET mp == cycle.section.machiningPoints
        moves == LinearMovesOf(FinishNode)
    IN  /\ Len(moves) >= Len(mp)
        /\ \A k \in 1..Len(mp) :
              /\ FinishNode.calls[k].tag.f = "linearInterpolation"
              /\ FinishNode.calls[k].tag.point.x = mp[k].x
              /\ FinishNode.calls[k].tag.point.y = Undef
              /\ FinishNode.calls[k].tag.point.z = mp[k].z

\* C12: the finishing pass of sectionCycle begins with one linear move per
\* machining point of the section, in machining order, to that very point
C12_FinishFollowsContour ==
    CycleRan => (Len(Nodes(cycle.calls, "basicTaper")) = 1 /\ FinishFollowsContour)

\* a section with an interpolated end point and distinct diameters
C12_Witness ==
    /\ CycleRan
    /\ Len(cycle.section.machiningPoints) >= 3
    /\ \E k \in 1..Len(cycle.section.machiningPoints) :
          cycle.section.machiningPoints[k].x \notin Diameters
    /\ FinishFollowsContour

\* ------------------------------------------------------------------------
\* Section properties
\* ------------------------------------------------------------------------
\* the three views of point k (1-based) of section s agree on its diameter
\* and place it at the same distance from the section start
RoundTrip(s, k) ==
    /\ s.machiningPoints[k].x = s.points[k].x
    /\ getLengthOffsetPoint(s, k - 1).x = s.points[k].x
    /\ s.machiningPoints[k].z = Sub(Sub(s.length, s.points[k].z), stickout)
    /\ getLengthOffsetPoint(s, k - 1).z = Sub(s.points[k].z, s.length)

\* C13: in every section the segmenter builds, point k has the same diameter
\* in points, in machiningPoints and in getLengthOffsetPoint(k), and points
\* keeps the z values machiningPoints was derived from
C13_DiametersSurviveRoundTrip ==
    SegDone =>
      \A n \in 1..Len(sections) :
        /\ Len(sections[n].machiningPoints) = Len(sections[n].points)
        /\ \A k \in 1..Len(sections[n].points) : RoundTrip(sections[n], k)

\* a section of three points, two of them at the same z, with diameters
\* that differ
C13_Witness ==
    /\ SegDone
    /\ \E n \in 1..Len(sections) :
          /\ Len(sections[n].points) = 3
          /\ sections[n].points[1].x # sections[n].points[2].x
          /\ sections[n].points[2].x # sections[n].points[3].x
          /\ sections[n].points[2].z = sections[n].points[3].z
          /\ \A k \in 1..3 : RoundTrip(sections[n], k)

\* ------------------------------------------------------------------------
\* Program shape properties
\* ------------------------------------------------------------------------
Returning == pc = "returned"

\* the words that are parenthesized comments
CommentHeads ==
    {"(", "(NOTE - data pairs ignored)", "(NOTE - diameters ignored)",
     "(NOTE - point locations ignored)", "(inch part stickout)",
     "(inch diameter stock)", "(Section)"}

IsCommentLine(line) == Len(line) = 1 /\ line[1].w \in CommentHeads

\* the arguments of the run are usable: the lists pair up and no section is
\* wider than the stock
ValidInput ==
    /\ ~Prepare(args.diameterList, args.optLocationList).mismatch
    /\ Len(sections) >= 1
    /\ \A n \in 1..Len(sections) : Le(sections[n].maxDiameter, args.stockDiameter)

\* the numbers of the section markers of a text, in order
MarkerNumbers(text) ==
    LET marks == SelectSeq(text, LAMBDA w : w.w = "(Section)")
    IN  [k \in 1..Len(marks) |-> marks[k].v]

\* the text opens with the comment block: comment lines that include the
\* shop name and the tool, up to the line that sets the modes
BeginsWithHeader(text) ==
    LET ls == Lines(text)
    IN  \E n \in 1..Len(ls) :
          /\ n >= 6
          /\ \A k \in 1..(n - 1) : IsCommentLine(ls[k])
          /\ \E k \in 1..(n - 1) : ls[k] = <<Comment("OMalley Brass")>>
          /\ ls[n - 1] = <<Comment("Executed <date>")>>
          /\ ls[n][1] = Code("G72")

EndsWithM30(text) ==
    /\ Len(text) >= 2
    /\ text[Len(text) - 1] = Code("M30")
    /\ text[Len(text)] = NL

ProgramShape ==
    /\ BeginsWithHeader(result)
    /\ MarkerNumbers(result) = [k \in 1..Len(sections) |-> Num(k)]
    /\ EndsWithM30(result)

\* input point j of the test run, relative to the start of section n
TestPoint(j, n) ==
    DimensionPoint(TestArgs.diameterList[j],
                   Sub(TestArgs.optLocationList.cells[j], Mul(Num(n - 1), stickout)))

TestRunSections ==
    /\ Len(sections) = 2
    /\ \A n \in 1..2 : \A k \in 1..Len(sections[n].points) :
          \E j \in 1..9 : sections[n].points[k] = TestPoint(j, n)

\* C14: a run on valid input returns a text that opens with the header
\* comments, carries the markers (Section 1) .. (Section n) once each in
\* ascending order and ends with M30; the run of testGenCode has two
\* sections made of input points only
C14_ProgramShape ==
    /\ (Returning /\ ValidInput) => ProgramShape
    /\ (Returning /\ args = TestArgs) => (ValidInput /\ TestRunSections)

\* ------------------------------------------------------------------------
\* Repeated invocations
\* ------------------------------------------------------------------------
\* the section loop of genCode from section k (1-based) on, run as one
\* function from emitter state st
RECURSIVE SectionsFrom(_, _, _, _, _)
SectionsFrom(st, stockDiameter, secs, k, text) ==
    IF k > Len(secs) THEN text \o <<Code("M30"), NL>>
    ELSE LET r == sectionCycle(st, stockDiameter, secs[k], k * 100)
             marked == text \o SectionMarker(k - 1)
         IN  IF r.thrown THEN OnError(marked, r.message)
             ELSE SectionsFrom(r.state, stockDiameter, secs, k + 1, marked \o r.code)

\* what genCode returns for arguments a when the emitter state is initial
FreshResult(a) ==
    LET p == Prepare(a.diameterList, a.optLocationList)
    IN  IF p.mismatch THEN <<Message(MismatchMessage)>>
        ELSE SectionsFrom(initialState, a.stockDiameter,
                          interpolatePoints(p.diameterPoints, p.locationPoints), 1,
                          Header(a.stockDiameter, p.numDiametersRemoved,
                                 p.numPointsRemoved))

\* C15: whatever invocations ran before, genCode returns for its arguments
\* the text the first invocation of the process returns for them (the date
\* line is the same placeholder in every run), so two invocations with equal
\* arguments return equal text
C15_Deterministic == Returning => result = FreshResult(args)

\* an invocation that began on an emitter state left behind by an earlier
\* one and ran its single section to the end
C15_Witness ==
    /\ Returning
    /\ Len(sections) = 1
    /\ CycleRan
    /\ cycle.before # initialState
    /\ EndsWithM30(result)
    /\ result = FreshResult(args)

\* C16: an invocation of genCode begins (the process is idle, the next step
\* is the entry of genCode) with the emitter state at its initial value
C16_StateScopedToRun == pc = "idle" => state = initialState

\* ---------------------------------------------------------------------
\* Mode after a cycle command
\* ---------------------------------------------------------------------

\* the kind of command a line holds: a line without mode word continues cmd
LineKind(cmd, line) ==
    IF Len(line) = 0 THEN cmd
    ELSE IF line[1].w = "G00" THEN "rapid"
    ELSE IF line[1].w = "G01" THEN "linear"
    ELSE IF line[1].w \in {"G74", "G75"} THEN "cycle"
    ELSE cmd

\* line commands a move: it names an axis and is no cycle command
IsMotionLine(line) ==
    /\ Len(line) > 0
    /\ line[1].w \notin {"G74", "G75"}
    /\ \E k \in 1..Len(line) : line[k].w \in {"X", "Y", "Z"}

\* in the lines ls, emitted when the last command was of kind cmd, every
\* move that follows a cycle command begins with its mode word
RECURSIVE RestatesAfterCycle(_, _)
RestatesAfterCycle(cmd, ls) ==
    IF Len(ls) = 0 THEN TRUE
    ELSE /\ (cmd = "cycle" /\ IsMotionLine(Head(ls)))
                => Head(ls)[1].w \in {"G00", "G01"}
         /\ RestatesAfterCycle(LineKind(cmd, Head(ls)), Tail(ls))

CommandWords ==
    {"G00", "G01", "G72", "G74", "G75", "G90", "G94", "G95", "G97",
     "M01", "M03", "M05", "M30", "RF", "T1",
     "X", "Y", "Z", "F", "I", "U", "S"}

\* a line of command words, a comment possibly closing it
IsCommandLine(line) ==
    \A k \in 1..Len(line) :
        line[k].w \in CommandWords \/ (k = Len(line) /\ line[k].w = "(")

\* the run returned a program, not an error message
ReturnedProgram == Returning /\ \A k \in 1..Len(result) : result[k].w # "message"

\* C18: the text contourCycle appends for its simG75 call is the text simG75
\* built from its emitter calls, and every line of a returned program is a
\* comment or a line of command words
C18_SimReturnsItsCode ==
    /\ CycleRan => SimNode.appended = SimNode.code
    /\ ReturnedProgram
           => \A k \in 1..Len(Lines(result)) :
                  IsCommentLine(Lines(result)[k]) \/ IsCommandLine(Lines(result)[k])

\* ---------------------------------------------------------------------
\* Box cut of the simulated contour cycle
\* ---------------------------------------------------------------------

\* the largest x of the contour of SimNode moved out by the finish allowance
OffsetMax ==
    MathMax([k \in 1..Len(SimNode.tag.points) |->
                 finishSpacedPoints(SimNode.tag.points, SimNode.tag.U)[k].x])

\* the start point of the contour cycle lies outside the offset contour
StartsOutside == Lt(OffsetMax, ContourNode.tag.startPoint.x)

\* the lines of text that are box-cut cycle commands
BoxCuts(text) == SelectSeq(Lines(text), LAMBDA line : line[1].w = "G74")

\* C19: a simulated contour cycle whose start point has x above the largest
\* x of the offset contour emits exactly one G74 command, down to that
\* largest x, as the first line of its text, before the first roughing pass
C19_BoxCutBeforeRoughing ==
    (CycleRan /\ StartsOutside)
        => /\ Len(BoxCuts(SimNode.code)) = 1
           /\ Head(Lines(SimNode.code)) = Head(BoxCuts(SimNode.code))
           /\ Head(BoxCuts(SimNode.code))[2] = Word("X", OffsetMax)

\* ---------------------------------------------------------------------
\* Retreat after a pass
\* ---------------------------------------------------------------------

\* the z of the point the section's contour cycle was entered at: the z the
\* tool holds when the first pass begins
EntryZ == ContourNode.tag.startPoint.z

\* the largest x of the points of a pass
PassMax(node) == MathMax([k \in 1..Len(node.tag.points) |-> node.tag.points[k].x])

\* the pass ends with an emitted linear move out to its clearance diameter
MovesOut(node) ==
    LET out == node.calls[Len(node.calls) - 1]
    IN  /\ out.tag.f = "linearInterpolation"
        /\ out.tag.point.x = Add(PassMax(node), xClearance)
        /\ HasWord(out.code, "X")

\* the pass ends with an emitted rapid move in z back to the entry z
MovesBack(node) ==
    LET back == node.calls[Len(node.calls)]
    IN  /\ back.tag.f = "rapidPosition"
        /\ back.tag.point.z = EntryZ
        /\ HasWord(back.code, "Z")

\* C20: every roughing pass of the simulated contour cycle and the
\* finishing pass end, after their last contour point, with a linear move
\* out to x = largest x of the pass + x clearance followed by a rapid move
\* in z back to the z the tool entered at
C20_PassesRetreat ==
    CycleRan
        => /\ \A k \in 1..Len(RoughingPasses) :
                  MovesOut(RoughingPasses[k]) /\ MovesBack(RoughingPasses[k])
           /\ MovesOut(FinishNode) /\ MovesBack(FinishNode)

\* ---------------------------------------------------------------------
\* Roughing pass subdivision
\* ---------------------------------------------------------------------

\* the contour handed to genMultiPassPoints: the points of SimNode moved out
\* by the finish allowance
OffsetContour == finishSpacedPoints(SimNode.tag.points, SimNode.tag.U)

OffsetMin == MathMin([k \in 1..Len(OffsetContour) |-> OffsetContour[k].x])

\* (startX - min x) / (2 * I) for the call simG75 makes
PassQuotient == Div(Sub(OffsetMax, OffsetMin), Mul(Num(2), SimNode.tag.I))

\* the points of roughing pass p as basicTaper received them
PassPoints(p) == RoughingPasses[p].tag.points

\* N is the ceiling of the quotient q
IsCeilOf(N, q) == Lt(Num(N - 1), q) /\ Le(q, Num(N))

\* C21: when N = ceil((startX - min x) / (2*I)) is at least 1,
\* genMultiPassPoints returns N passes, and pass p < N has at point j
\* x = startX - p*(startX - x_j)/N and z = z_j
C21_PassSubdivision ==
    (CycleRan /\ Gt(PassQuotient, Num(0)))
        => LET N == Len(RoughingPasses)
           IN  /\ IsCeilOf(N, PassQuotient)
               /\ \A p \in 1..(N - 1) :
                      /\ Len(PassPoints(p)) = Len(OffsetContour)
                      /\ \A j \in 1..Len(OffsetContour) :
                             /\ PassPoints(p)[j].x
                                    = Sub(OffsetMax,
                                          Div(Mul(Num(p), Sub(OffsetMax, OffsetContour[j].x)),
                                              Num(N)))
                             /\ PassPoints(p)[j].z = OffsetContour[j].z

\* a contour of at least two points cut in three or more passes
C21_Witness ==
    /\ CycleRan
    /\ Len(OffsetContour) >= 2
    /\ Len(RoughingPasses) >= 3
    /\ IsCeilOf(Len(RoughingPasses), PassQuotient)
    /\ PassPoints(2)[1].x # PassPoints(1)[1].x

\* the x at point j before roughing pass p cuts: startX for the first pass
XBefore(p, j) == IF p = 1 THEN OffsetMax ELSE PassPoints(p - 1)[j].x

\* the diameter roughing pass p removes at point j
Removed(p, j) == Sub(XBefore(p, j), PassPoints(p)[j].x)

\* C22: at every contour point each roughing pass removes at most 2*I of
\* diameter relative to the pass before it (the first relative to startX),
\* and no pass has a larger x than the pass before it
C22_CutDepthBounded ==
    CycleRan
        => \A p \in 1..Len(RoughingPasses) :
               \A j \in 1..Len(OffsetContour) :
                   /\ Le(PassPoints(p)[j].x, XBefore(p, j))
                   /\ Le(Removed(p, j), Mul(Num(2), SimNode.tag.I))

\* several passes, one of which removes more than I of diameter at a point
C22_Witness ==
    /\ CycleRan
    /\ Len(RoughingPasses) >= 2
    /\ \E p \in 1..Len(RoughingPasses) :
           \E j \in 1..Len(OffsetContour) :
               /\ Gt(Removed(p, j), SimNode.tag.I)
               /\ Le(Removed(p, j), Mul(Num(2), SimNode.tag.I))

\* ---------------------------------------------------------------------
\* Order of a section's commands
\* ---------------------------------------------------------------------

\* the text sectionCycle returned is, in this order: the switch to feed per
\* minute, the move to the pull point, the pause, the move to the safe
\* point, spindle start, the switch to feed per revolution, the text of the
\* contour cycle, of the finishing pass and of the retract, spindle stop
SectionOrder ==
    LET c == cycle.calls
        mp == cycle.section.machiningPoints
        safeX == Add(cycle.startDiameter, xClearance)
    IN  /\ Len(c) = 5
        /\ c[1].tag.f = "linearInterpolation"
        /\ c[1].tag.point = MovePoint(Add(mp[1].x, xClearance), Undef, mp[1].z)
        /\ HasWord(c[1].code, "G01")
        /\ c[2].tag.f = "linearInterpolation"
        /\ c[2].tag.point.x = safeX
        /\ Emitted(c[2])
        /\ c[3].tag.f = "contourCycle"
        /\ c[4].tag.f = "basicTaper"
        /\ c[5].tag.f = "rapidPosition"
        /\ c[5].tag.point = MovePoint(safeX, Undef, zClearance)
        /\ HasWord(c[5].code, "G00")
        /\ \A k \in 1..5 : \A w \in {"M01", "M03", "M05", "G94", "G95"} :
               ~HasWord(c[k].appended, w)
        /\ cycle.code
               = <<Code("G94"), Word("F", Mul(Num(rpm), feedRate)), NL>>
                 \o c[1].appended
                 \o <<Code("M01"), Comment("Move stock to appropriate position"), NL>>
                 \o c[2].appended
                 \o <<Code("M03"), Word("S", Num(rpm)), NL>>
                 \o <<Code("G95"), Word("F", feedRate), NL>>
                 \o c[3].appended \o c[4].appended \o c[5].appended
                 \o <<Code("M05"), NL>>

\* over the lines ls, read with the spindle running or not: M03 comes only
\* when it is stopped, M05 only when it runs, M01 only when it is stopped
RECURSIVE SpindleAlternates(_, _)
SpindleAlternates(ls, running) ==
    IF Len(ls) = 0 THEN TRUE
    ELSE LET w == IF Len(Head(ls)) = 0 THEN "" ELSE Head(ls)[1].w
         IN  /\ w = "M03" => ~running
             /\ w = "M05" => running
             /\ w = "M01" => ~running
             /\ SpindleAlternates(Tail(ls),
                                  IF w = "M03" THEN TRUE
                                  ELSE IF w = "M05" THEN FALSE ELSE running)

\* C23: the text of every sectionCycle has its commands in the order G94 and
\* move to the pull point, M01, move to the safe point, M03, G95, roughing,
\* finishing, retract, M05; so in the program text M03 and M05 alternate,
\* the spindle is stopped at every M01, and the roughing and finishing text
\* lies between an M03 and the next M05
C23_SectionOrder ==
    /\ CycleRan => SectionOrder
    /\ SpindleAlternates(Lines(codeText), FALSE)

\* a program of two sections, both cut
C23_Witness ==
    /\ Returning
    /\ CycleRan
    /\ Len(sections) = 2
    /\ Len(SelectSeq(codeText, LAMBDA w : w = Code("M05"))) = 2
    /\ SectionOrder

\* ---------------------------------------------------------------------
\* Sections relative to their own start
\* ---------------------------------------------------------------------

\* the z of the points of section s never decreases
NonDecreasingZ(s) ==
    \A m \in 1..(Len(s.points) - 1) : Le(s.points[m].z, s.points[m + 1].z)

\* C24: every section interpolatePoints returns for an ordered point list
\* has its first point at z = 0, and z does not decrease from there
C24_SectionsStartAtZero ==
    \A k \in 1..Len(sections) :
        /\ Len(sections[k].points) > 0
        /\ sections[k].points[1].z = Num(0)
        /\ NonDecreasingZ(sections[k])

\* ---------------------------------------------------------------------
\* Orientation of the input
\* ---------------------------------------------------------------------

\* the numeric diameters and positions of the run as given, paired by index
\* after cleaning (default positions when no list was given)
GivenDiameters == Filter(args.diameterList)
GivenLocations ==
    IF args.optLocationList.given THEN Filter(args.optLocationList.cells)
    ELSE DefaultLocations(Len(GivenDiameters))
GivenPairs == {<<GivenDiameters[k], GivenLocations[k]>> : k \in 1..Len(GivenDiameters)}

\* the run got past the cleaning of its lists with at least one point
Oriented ==
    /\ args # NoArgs
    /\ Len(xPoints) > 0
    /\ Len(GivenDiameters) = Len(GivenLocations)

taperLength == MathMax(GivenLocations)

\* the diameter given at the smallest position exceeds the one given at the
\* largest position
FreeEndLast ==
    \E a \in GivenPairs, b \in GivenPairs :
        /\ a[2] = MathMin(GivenLocations)
        /\ b[2] = taperLength
        /\ Gt(a[1], b[1])

\* the points genCode hands to interpolatePoints
OrientedPairs == {<<xPoints[k], zPoints[k]>> : k \in 1..Len(xPoints)}

\* C25: for input given free end last, the points genCode cuts have first
\* diameter <= last diameter, ascending positions, and every diameter given
\* at position z paired with position taperLength - z
C25_ReversedAndReoffset ==
    (Oriented /\ FreeEndLast)
        => /\ Le(xPoints[1], xPoints[Len(xPoints)])
           /\ \A k \in 1..(Len(zPoints) - 1) : Le(zPoints[k], zPoints[k + 1])
           /\ OrientedPairs = {<<q[1], Sub(taperLength, q[2])>> : q \in GivenPairs}

\* ---------------------------------------------------------------------
\* Moves to the position already held
\* ---------------------------------------------------------------------

\* every axis present in the point of call c has the value last commanded
\* for that axis before the call
AtKnownPosition(c) ==
    /\ c.point.axesPresent.x => c.point.x = c.knownBefore.x
    /\ c.point.axesPresent.y => c.point.y = c.knownBefore.y
    /\ c.point.axesPresent.z => c.point.z = c.knownBefore.z

\* C26: rapidPosition or linearInterpolation called with a point whose
\* every present axis equals the last known position (a point without axes
\* included) emits nothing and leaves the emitter state as it was
C26_NoOpMoveKeepsState ==
    (call.op \in {"rapid", "linear"} /\ AtKnownPosition(call))
        => (call.code = << >> /\ state = call.before)

\* ---------------------------------------------------------------------
\* Finish allowance
\* ---------------------------------------------------------------------

\* the x the finishing pass is left to cut down from at point j: the
\* contour x plus twice the finish allowance
FinishLimit(j) == Add(cycle.section.machiningPoints[j].x, Mul(Num(2), SimNode.tag.U))

\* the largest of these over the contour
FinishLimitMax ==
    MathMax([j \in 1..Len(cycle.section.machiningPoints) |-> FinishLimit(j)])

\* C27: every roughing pass of the simulated contour cycle has, at every
\* contour point, x >= contour x + 2 * finish allowance and x <= the largest
\* x of the offset contour
C27_AllowanceKept ==
    CycleRan
        => \A p \in 1..Len(RoughingPasses) :
               /\ Len(PassPoints(p)) = Len(cycle.section.machiningPoints)
               /\ \A j \in 1..Len(PassPoints(p)) :
                      /\ Le(FinishLimit(j), PassPoints(p)[j].x)
                      /\ Le(PassPoints(p)[j].x, FinishLimitMax)

\* several passes over a contour of several points, the first pass above
\* the limit at a point and the last pass on it
C27_Witness ==
    /\ CycleRan
    /\ Len(RoughingPasses) >= 2
    /\ Len(cycle.section.machiningPoints) >= 2
    /\ \E j \in 1..Len(cycle.section.machiningPoints) :
           /\ Gt(PassPoints(1)[j].x, FinishLimit(j))
           /\ PassPoints(Len(RoughingPasses))[j].x = FinishLimit(j)

\* ---------------------------------------------------------------------
\* Failed containment check
\* ---------------------------------------------------------------------

\* the latest sectionCycle call failed its containment check
CheckFailed ==
    /\ cycle.called
    /\ cycle.thrown
    /\ Gt(cycle.section.maxDiameter, cycle.startDiameter)

\* C28: a sectionCycle call that fails the containment check emits nothing
\* and leaves the emitter state as it was before the call
C28_FailedCheckKeepsState ==
    CheckFailed => (state = cycle.before /\ cycle.built = << >> /\ cycle.calls = << >>)

\* the check failed on a section cut after an earlier one had moved the
\* emitter state off its initial value
C28_Witness ==
    /\ CheckFailed
    /\ cycle.before # initialState
    /\ state = cycle.before
    /\ HasWord(codeText, "M05")

\* ---------------------------------------------------------------------
\* Alignment of cleaned pairs
\* ---------------------------------------------------------------------

\* the run was given positions and got past the cleaning of its lists
AcceptedWithLocations == Oriented /\ args.optLocationList.given

\* diameter d and position z were given at one input index
GivenTogether(d, z) ==
    \E m \in 1..Len(args.diameterList) :
        /\ m <= Len(args.optLocationList.cells)
        /\ args.diameterList[m] = d
        /\ args.optLocationList.cells[m] = z

\* C29: when positions are given and some cells are dropped, every diameter
\* genCode keeps is paired with the position given at its input index
\* (the diameters read in the order kept, or in reversed order when genCode
\* reversed them)
C29_CleanedPairsAligned ==
    AcceptedWithLocations
        => \/ \A k \in 1..Len(xPoints) : GivenTogether(xPoints[k], zPoints[k])
           \/ \A k \in 1..Len(xPoints) :
                  GivenTogether(xPoints[Len(xPoints) + 1 - k], zPoints[k])

\* ---------------------------------------------------------------------
\* Range of the machining points
\* ---------------------------------------------------------------------

\* the machining points of section s are in cutting order, from the face
\* (z = 0) toward the grip (z = -stickout), and none lies outside
WithinStickout(s) ==
    /\ \A k \in 1..(Len(s.machiningPoints) - 1) :
           Le(s.machiningPoints[k + 1].z, s.machiningPoints[k].z)
    /\ \A k \in 1..Len(s.machiningPoints) :
           /\ Le(Neg(stickout), s.machiningPoints[k].z)
           /\ Le(s.machiningPoints[k].z, Num(0))
           /\ s.machiningPoints[k].z = Sub(Sub(s.length, s.points[k].z), stickout)

\* C30: in every section interpolatePoints produces, the machining points
\* are sorted by non-increasing z and every machining z lies in
\* [-stickout, 0], equal to section length - original z - stickout
C30_MachiningWithinStickout ==
    \A n \in 1..Len(sections) : WithinStickout(sections[n])

\* a full section, cut from the face to the grip, followed by a shorter one
\* that ends short of the grip
C30_Witness ==
    /\ SegDone
    /\ Len(sections) >= 2
    /\ sections[1].machiningPoints[1].z = Num(0)
    /\ sections[1].machiningPoints[Len(sections[1].machiningPoints)].z = Neg(stickout)
    /\ Lt(sections[Len(sections)].length, stickout)
    /\ Len(sections[Len(sections)].machiningPoints) >= 2
    /\ C30_MachiningWithinStickout

====
